---- MODULE Spec2Model ----
(***************************************************************************)
(* A model of pgmigrate (src/pgmigrate.go): getVersion, MigrateDatabase    *)
(* and runFile, run against a database holding the tracking table          *)
(* _migrate_ and the effects of the migration files.                       *)
(*                                                                         *)
(* Every call that reaches the database (QueryRowContext, ExecContext,     *)
(* BeginTx, Commit) is one action, so that a cancellation of the caller's  *)
(* context, a failure of the call, or another runner can fall between two  *)
(* of them.  The directory scan, the filename parsing and the validation   *)
(* loop touch no shared state and form one action.                         *)
(***************************************************************************)
EXTENDS Integers, Sequences, FiniteSets, TLC

\* ------------------------------------------------------------- bounds
\* The largest migration number a file of a modelled directory carries.
MaxNumber == 2
\* How many file numbers of the form 2^64 - k (k in 1..MaxWrap) are modelled.
MaxWrap == 1

\* ------------------------------------------------------ file names
\* A file name is modelled by what MigrateDatabase reads of it: the dot
\* separated segments after the first one (segs), and the text of the first
\* segment up to its first "-" (num).  That text is one of
\*   kind "dec": the decimal text of k, zero padded or not (001, 2, ...),
\*   kind "top": the decimal text of 2^64 - k, which ParseUint accepts,
\*   kind "nan": a text ParseUint rejects (empty, letters, a sign).
Dec(k) == [kind |-> "dec", k |-> k]
Top(k) == [kind |-> "top", k |-> k]
Nan == [kind |-> "nan", k |-> 0]

MigName(n, d) == [num |-> Dec(n), segs |-> <<d, "sql">>]

\* The well formed migration files <n>.up.sql and <n>.down.sql, n in 1..MaxNumber.
MigFiles == {MigName(n, d) : n \in 1..MaxNumber, d \in {"up", "down"}}

\* 0.down.sql
ZeroDown == MigName(0, "down")
\* 18446744073709551615.down.sql for k = 1, and so on downward.
TopDown(k) == [num |-> Top(k), segs |-> <<"down", "sql">>]
\* x.up.sql: three segments, ends in sql, prefix not a number.
NanFile == [num |-> Nan, segs |-> <<"up", "sql">>]
\* 1.sideways.sql: a direction token that is neither up nor down.
BadDirFile == [num |-> Dec(1), segs |-> <<"sideways", "sql">>]
\* README.md: two segments.
Readme == [num |-> Nan, segs |-> <<"md">>]
\* <MaxNumber+1>.up.txt: three segments, the last one not sql.
NotSql == [num |-> Dec(MaxNumber + 1), segs |-> <<"up", "txt">>]
\* <MaxNumber+1>.up.sql.bak: four segments.
Backup == [num |-> Dec(MaxNumber + 1), segs |-> <<"up", "sql", "bak">>]

ExtraSets ==
    {{}} \cup {{x} : x \in {NanFile, BadDirFile, Readme, NotSql, Backup}}
         \cup {{ZeroDown} \cup {TopDown(k) : k \in 1..j} : j \in 0..MaxWrap}

\* The directories a behaviour may start with.
Dirs == {core \cup extra : core \in SUBSET MigFiles, extra \in ExtraSets}

\* --------------------------------------------- MigrateDatabase: the scan
\* strings.Split(name, "."): the number of parts.
NumParts(name) == 1 + Len(name.segs)

\* (a variant: every file whose third part is "sql" is taken)
ConsideredAnyLength(name) == NumParts(name) >= 3 /\ name.segs[2] = "sql"

\* The files the loop does not skip: three parts, the last one "sql".
Considered(name) == NumParts(name) = 3 /\ name.segs[2] = "sql"

\* strconv.ParseUint(numberStr, 10, 64) fails.
ParseFails(name) == name.num.kind = "nan"

\* number := int(numberUI64): a value of 2^63 or more wraps to a negative
\* int, so the text of 2^64 - k yields -k.
Number(name) == IF name.num.kind = "top" THEN 0 - name.num.k ELSE name.num.k

\* The files at which the loop returns "invalid version filename".
InvalidFilenames(d) == {f \in d : Considered(f) /\ ParseFails(f)}

\* The files at which the loop returns "Bad filename".
BadFilenames(d) ==
    {f \in d : Considered(f) /\ ~ParseFails(f) /\ f.segs[1] \notin {"up", "down"}}

\* The files the loop indexes.
Indexed(d) == {f \in d : Considered(f) /\ ~ParseFails(f)}

SetMax(S) == CHOOSE m \in S : \A x \in S : x <= m

\* maxMigration after the loop: it starts at 0 and is raised by every
\* number above it, before the direction token is looked at.
maxMigration(d) == SetMax({0} \cup {Number(f) : f \in Indexed(d)})

\* The keys of upFiles and of downFiles after the loop.
upFiles(d) == {Number(f) : f \in {g \in Indexed(d) : g.segs[1] = "up"}}
downFiles(d) == {Number(f) : f \in {g \in Indexed(d) : g.segs[1] = "down"}}

\* (a variant: the loop looks for the up-file only)
MissingUpOnly(d) == {i \in 1..(maxMigration(d) - 1) : i \notin upFiles(d)}

\* The validation loop, idx from 1 to maxMigration - 1: the first idx with a
\* file missing, and which one ("MissingUp" is tested first); "nil" if none.
MissingAt(d) == {i \in 1..(maxMigration(d) - 1) : i \notin upFiles(d) \/ i \notin downFiles(d)}
SetMin(S) == CHOOSE m \in S : \A x \in S : m <= x
ValidationError(d) ==
    IF MissingAt(d) = {} THEN "nil"
    ELSE IF SetMin(MissingAt(d)) \notin upFiles(d) THEN "MissingUp" ELSE "MissingDown"

\* The errors the scan can return for the directory: a filename error of one
\* of the offending files (the first in ReadDir's order, which the modelled
\* names do not carry), else the validation loop's.
LoadErrors(d) ==
    IF InvalidFilenames(d) \cup BadFilenames(d) # {}
    THEN {IF f \in InvalidFilenames(d) THEN "InvalidFilename" ELSE "BadFilename" :
            f \in InvalidFilenames(d) \cup BadFilenames(d)}
    ELSE {ValidationError(d)}

\* The directory passes the scan and the validation loop.
Valid(d) == LoadErrors(d) = {"nil"}

\* ------------------------------------------------------------- state
\* The runners: each is one caller of MigrateDatabase or getVersion.
Runners == {1, 2}

\* The targets a caller passes: the sentinel -1, the numbers of the files,
\* one above the largest, and those below the sentinel.
Targets == (0 - (MaxWrap + 2))..(MaxNumber + 1)

VARIABLES
    dir,            \* the files of migrationsDir
    connKind,       \* the Queryer passed: "DB" (*sql.DB, a pool) or "Conn" (*sql.Conn)
    hasTable,       \* the tracking table _migrate_ exists (durable)
    rows,           \* the version values of the rows of _migrate_ (durable)
    applied,        \* the migrations whose effects are in the database (durable)
    pc,             \* each runner's position
    op,             \* what each runner was called to do: "migrate" or "getVersion"
    arg,            \* the targetVersion the caller passed
    targetVersion,  \* MigrateDatabase's targetVersion
    currentVersion, \* getVersion's and MigrateDatabase's currentVersion
    idx,            \* the loop variable of the ascending or descending loop
    ctxDone,        \* the caller's context is cancelled
    err,            \* the error the call returned ("nil": none)
    tx,             \* runFile's tx: open or not, and what it holds uncommitted
    nBegin,         \* transactions begun by the call
    nCommit,        \* transactions committed by the call
    executed,       \* the files the call handed to ExecContext, in order
    gvPath,         \* how getVersion got its value: "existing" or "bootstrap"
    pre,            \* the database as it was when the call was made, and
                    \* whether no other runner's call was running then
    script,         \* the calls a scripted caller makes, in order (<<>>: any calls)
    hist            \* the calls of the script that returned, in order

dbVars == <<hasTable, rows, applied>>
envVars == <<dir, connKind, script>>
runVars == <<pc, op, arg, targetVersion, currentVersion, idx, ctxDone, err, tx,
             nBegin, nCommit, executed, gvPath, pre>>
vars == <<dir, connKind, hasTable, rows, applied, pc, op, arg, targetVersion,
          currentVersion, idx, ctxDone, err, tx, nBegin, nCommit, executed,
          gvPath, pre, hist, script>>

NoTx == [open |-> FALSE, rows |-> {}, applied |-> {}]

\* The databases a behaviour may start with: brand new (no tracking table,
\* nothing applied), or left at version v by earlier runs over this directory.
InitDb ==
    \/ /\ hasTable = FALSE /\ rows = {} /\ applied = {}
    \/ \E v \in 0..maxMigration(dir) :
          /\ hasTable = TRUE /\ rows = {v} /\ applied = 1..v

InitRun ==
    /\ pc = [p \in Runners |-> "idle"]
    /\ op = [p \in Runners |-> "none"]
    /\ arg = [p \in Runners |-> 0]
    /\ targetVersion = [p \in Runners |-> 0]
    /\ currentVersion = [p \in Runners |-> 0]
    /\ idx = [p \in Runners |-> 0]
    /\ ctxDone = [p \in Runners |-> FALSE]
    /\ err = [p \in Runners |-> "nil"]
    /\ tx = [p \in Runners |-> NoTx]
    /\ nBegin = [p \in Runners |-> 0]
    /\ nCommit = [p \in Runners |-> 0]
    /\ executed = [p \in Runners |-> <<>>]
    /\ gvPath = [p \in Runners |-> "none"]
    /\ pre = [p \in Runners |-> [hasTable |-> FALSE, rows |-> {}, applied |-> {},
                                 alone |-> TRUE]]
    /\ hist = <<>>

Init ==
    /\ dir \in Dirs
    /\ connKind \in {"DB", "Conn"}
    /\ InitDb
    /\ InitRun
    /\ script = <<>>

\* ------------------------------------------------------------ helpers
\* The call returns e: the runner is done.  A scripted caller notes what the
\* call returned and the durable database it leaves (r, a: the rows and the
\* applied migrations).
Finish(p, e, r, a) ==
    /\ pc' = [pc EXCEPT ![p] = "done"]
    /\ err' = [err EXCEPT ![p] = e]
    /\ hist' = IF script = <<>> THEN hist
               ELSE Append(hist, [err |-> e, value |-> currentVersion'[p],
                                  had |-> pre[p].hasTable,
                                  path |-> gvPath'[p], steps |-> Len(executed'[p]),
                                  rows |-> r, applied |-> a])

\* The call starts: its locals are fresh and its context is live.
Enter(p, o, t) ==
    /\ pc[p] \in {"idle", "done"}
    /\ pc' = [pc EXCEPT ![p] = "getVersion"]
    /\ op' = [op EXCEPT ![p] = o]
    /\ arg' = [arg EXCEPT ![p] = t]
    /\ targetVersion' = [targetVersion EXCEPT ![p] = t]
    /\ currentVersion' = [currentVersion EXCEPT ![p] = 0]
    /\ idx' = [idx EXCEPT ![p] = 0]
    /\ ctxDone' = [ctxDone EXCEPT ![p] = FALSE]
    /\ err' = [err EXCEPT ![p] = "nil"]
    /\ nBegin' = [nBegin EXCEPT ![p] = 0]
    /\ nCommit' = [nCommit EXCEPT ![p] = 0]
    /\ executed' = [executed EXCEPT ![p] = <<>>]
    /\ gvPath' = [gvPath EXCEPT ![p] = "none"]
    /\ pre' = [pre EXCEPT ![p] =
                  [hasTable |-> hasTable, rows |-> rows, applied |-> applied,
                   alone |-> \A q \in Runners \ {p} : pc[q] \in {"idle", "done"}]]
    /\ UNCHANGED <<envVars, dbVars, tx, hist>>

\* ---------------------------------------------------------- the caller
\* A caller calls MigrateDatabase(ctx, conn, migrationsDir, t).
CallMigrate(p) ==
    \E t \in Targets :
        /\ script = <<>>
        /\ Enter(p, "migrate", t)

\* A caller calls getVersion(ctx, conn), as TestMigrate's assertVersion does.
CallGetVersion(p) ==
    /\ script = <<>>
    /\ Enter(p, "getVersion", 0)

\* A scripted caller makes the next call of its script; like TestMigrate, it
\* stops at the first call that returns an error.
CallScripted(p) ==
    /\ Len(hist) < Len(script)
    /\ hist # <<>> => hist[Len(hist)].err = "nil"
    /\ Enter(p, script[Len(hist) + 1].op, script[Len(hist) + 1].target)

\* The caller's context is cancelled while the call is running.
Cancel(p) ==
    /\ pc[p] \notin {"idle", "done"}
    /\ ~ctxDone[p]
    /\ ctxDone' = [ctxDone EXCEPT ![p] = TRUE]
    /\ UNCHANGED <<envVars, dbVars, pc, op, arg, targetVersion, currentVersion, idx, err,
                   tx, nBegin, nCommit, executed, gvPath, pre, hist>>

\* ----------------------------------------------------------- the context
\* (a variant: the calls are made with a context that is never cancelled)
CtxIgnored(p) == TRUE

\* ctx is passed to QueryRowContext, to ExecContext and to BeginTx, and the
\* transaction begun with it cannot commit once it is cancelled: each of
\* these calls succeeds only while the context is live.
CtxLive(p) == ~ctxDone[p]

\* ----------------------------------------------------------- getVersion
\* getVersion has its value v: it returns it, to its caller or to
\* MigrateDatabase, which goes on to read the directory.
GotVersion(p, v, path, r) ==
    /\ currentVersion' = [currentVersion EXCEPT ![p] = v]
    /\ gvPath' = [gvPath EXCEPT ![p] = path]
    /\ UNCHANGED executed
    /\ IF op[p] = "getVersion"
       THEN Finish(p, "nil", r, applied)
       ELSE /\ pc' = [pc EXCEPT ![p] = "load"]
            /\ UNCHANGED <<err, hist>>

\* The codes of the *pq.Error the SELECT can fail with on a database that
\* has the tracking table (h) or lacks it: undefined_table if it lacks it,
\* and in either case a code of another class.
PqErrorCodes(h) == {"insufficient_privilege"} \cup (IF h THEN {} ELSE {"undefined_table"})

\* (a variant: every *pq.Error leads to the bootstrap)
BootstrapsOnAnyPqError(code) == TRUE

\* if pgErr.Code.Name() != "undefined_table" { return 0, err }
Bootstraps(code) == code = "undefined_table"

\* SELECT version FROM _migrate_, and Scan.
GetVersionQuery(p) ==
    /\ pc[p] = "getVersion"
    /\ UNCHANGED <<envVars, dbVars, op, arg, targetVersion, idx, ctxDone, tx, nBegin,
                   nCommit, pre>>
    /\ \/ \* an error that is no *pq.Error (the context is cancelled, no row,
          \* a value that does not scan): returned as it is
          /\ UNCHANGED <<currentVersion, gvPath, executed>>
          /\ Finish(p, "ReadNonPq", rows, applied)
       \/ \* a *pq.Error: undefined_table goes on to create the table, any
          \* other code is returned as it is
          /\ CtxLive(p)
          /\ UNCHANGED <<currentVersion, gvPath, executed>>
          /\ \E code \in PqErrorCodes(hasTable) :
                IF Bootstraps(code)
                THEN /\ pc' = [pc EXCEPT ![p] = "bootstrap"]
                     /\ UNCHANGED <<err, hist>>
                ELSE Finish(p, "ReadPqOther", rows, applied)
       \/ \* the row is read
          /\ CtxLive(p)
          /\ hasTable
          /\ \E v \in rows : GotVersion(p, v, "existing", rows)

\* (a variant: the row inserted is 1)
BootstrapRowsOne == {1}

\* The rows of the tracking table after INSERT INTO _migrate_ (version) VALUES (0).
BootstrapRows == {0}

\* CREATE TABLE _migrate_ ...; INSERT INTO _migrate_ (version) VALUES (0);
\* one statement batch, which takes effect as a whole or not at all.
GetVersionBootstrap(p) ==
    /\ pc[p] = "bootstrap"
    /\ UNCHANGED <<envVars, applied, op, arg, targetVersion, idx, ctxDone, tx, nBegin,
                   nCommit, pre>>
    /\ \/ \* the batch fails (the context is cancelled, the table exists by
          \* now, the connection fails)
          /\ UNCHANGED <<hasTable, rows, currentVersion, gvPath, executed>>
          /\ Finish(p, "Bootstrap", rows, applied)
       \/ /\ CtxLive(p)
          /\ ~hasTable
          /\ hasTable' = TRUE
          /\ rows' = BootstrapRows
          /\ GotVersion(p, currentVersion[p], "bootstrap", BootstrapRows)

\* ------------------------------------------------------ MigrateDatabase
\* (a variant: the sentinel is taken as the literal target -1)
ResolveLiteral(t, d) == t

\* if targetVersion == -1 { targetVersion = maxMigration }
Resolve(t, d) == IF t = 0 - 1 THEN maxMigration(d) ELSE t

\* if targetVersion > currentVersion: the ascending loop is the one that
\* runs (else the descending one, which makes no step if the two are equal).
Ascending(c, t) == t > c
Up(p) == Ascending(currentVersion[p], targetVersion[p])

\* (a variant: the descending loop starts one too high)
FirstIdxAbove(c, t) == c + 1

\* The first idx of the loop that runs from current c to target t.
FirstIdx(c, t) == IF Ascending(c, t) THEN c + 1 ELSE c

\* (a variant: the descending loop goes on while idx >= targetVersion)
LoopContinuesGe(c, t, i) == IF t > c THEN i <= t ELSE i >= t

\* The loop condition: idx <= targetVersion going up, idx > targetVersion
\* going down.
LoopContinues(c, t, i) == IF Ascending(c, t) THEN i <= t ELSE i > t

\* (a variant: idx++ in both loops)
NextIdxUp(p) == idx[p] + 1

\* idx++ going up, idx-- going down.
NextIdx(p) == IF Up(p) THEN idx[p] + 1 ELSE idx[p] - 1

\* (a variant: idx in both loops)
StepVersionIdx(p) == idx[p]

\* The version runFile is given: idx going up, idx-1 going down.
StepVersion(p) == IF Up(p) THEN idx[p] ELSE idx[p] - 1

\* upFiles[idx] or downFiles[idx] is set.  If it is not, the map yields "" and
\* the path joined is the directory itself, which ReadFile cannot read.
HasFile(p) == IF Up(p) THEN idx[p] \in upFiles(dir) ELSE idx[p] \in downFiles(dir)

\* ReadDir, the loop over the files, the validation loop, the sentinel and
\* the choice of the loop.
Load(p) ==
    /\ pc[p] = "load"
    /\ UNCHANGED <<envVars, dbVars, op, arg, currentVersion, ctxDone, tx, nBegin,
                   nCommit, executed, gvPath, pre>>
    /\ \/ \* ReadDir fails
          /\ UNCHANGED <<targetVersion, idx>>
          /\ Finish(p, "Discovery", rows, applied)
       \/ \E e \in LoadErrors(dir) :
             IF e # "nil"
             THEN /\ UNCHANGED <<targetVersion, idx>>
                  /\ Finish(p, e, rows, applied)
             ELSE LET t == Resolve(targetVersion[p], dir) IN
                  /\ targetVersion' = [targetVersion EXCEPT ![p] = t]
                  /\ idx' = [idx EXCEPT ![p] = FirstIdx(currentVersion[p], t)]
                  /\ IF LoopContinues(currentVersion[p], t, FirstIdx(currentVersion[p], t))
                     THEN /\ pc' = [pc EXCEPT ![p] = "runFile"]
                          /\ UNCHANGED <<err, hist>>
                     ELSE Finish(p, "nil", rows, applied)

\* -------------------------------------------------------------- runFile
\* The statements runFile issues go to conn, not to tx.  On a *sql.Conn
\* they reach the one connection on which BeginTx has begun the
\* transaction, and belong to it; on a *sql.DB they reach another
\* connection of the pool and take effect at once.
InTx(p) == connKind = "Conn" /\ tx[p].open

\* What the file does to the applied migrations a: an up-file applies its
\* migration, a down-file reverts it.
FileEffect(p, a) == IF Up(p) THEN a \cup {idx[p]} ELSE a \ {idx[p]}

\* UPDATE _migrate_ SET version = v: every row gets v.
UpdateEffect(r, v) == IF r = {} THEN {} ELSE {v}

\* (a variant: a file found missing by ReadFile is reported as the
\* validation loop reports it)
ReadFileErrorAsMissing(p) ==
    IF targetVersion[p] > currentVersion[p] THEN "MissingUp" ELSE "MissingDown"

\* The error runFile returns when ReadFile fails: ReadFile's own.
ReadFileError(p) == "ReadFile"

\* (a variant: the error is returned without tx.Rollback())
RollbackOmitted(p) == tx[p]

\* tx.Rollback() on the error paths of the two ExecContext calls: the
\* transaction is over and what it holds is dropped.
RolledBack(p) == NoTx

\* ioutil.ReadFile, then conn.BeginTx.
RunFileBegin(p) ==
    /\ pc[p] = "runFile"
    /\ UNCHANGED <<envVars, dbVars, op, arg, targetVersion, currentVersion, idx, ctxDone,
                   nCommit, executed, gvPath, pre>>
    /\ \/ /\ ~HasFile(p)
          /\ UNCHANGED <<tx, nBegin>>
          /\ Finish(p, ReadFileError(p), rows, applied)
       \/ \* BeginTx fails (the context is cancelled, no connection)
          /\ HasFile(p)
          /\ UNCHANGED <<tx, nBegin>>
          /\ Finish(p, "BeginTx", rows, applied)
       \/ /\ HasFile(p)
          /\ CtxLive(p)
          /\ tx' = [tx EXCEPT ![p] =
                      IF connKind = "Conn"
                      THEN [open |-> TRUE, rows |-> rows, applied |-> applied]
                      ELSE [open |-> TRUE, rows |-> {}, applied |-> {}]]
          /\ nBegin' = [nBegin EXCEPT ![p] = @ + 1]
          /\ pc' = [pc EXCEPT ![p] = "exec"]
          /\ UNCHANGED <<err, hist>>

\* conn.ExecContext(ctx, string(bytes)): the file's statements, one batch.
RunFileExec(p) ==
    /\ pc[p] = "exec"
    /\ executed' = [executed EXCEPT ![p] = Append(@, <<IF Up(p) THEN "up" ELSE "down", idx[p]>>)]
    /\ UNCHANGED <<envVars, hasTable, rows, op, arg, targetVersion, currentVersion, idx,
                   ctxDone, nBegin, nCommit, gvPath, pre>>
    /\ \/ \* the batch fails (an SQL error, the context is cancelled):
          \* tx.Rollback(), and the error is returned
          /\ tx' = [tx EXCEPT ![p] = RolledBack(p)]
          /\ UNCHANGED applied
          /\ Finish(p, "Execution", rows, applied)
       \/ /\ CtxLive(p)
          /\ IF InTx(p)
             THEN /\ tx' = [tx EXCEPT ![p].applied = FileEffect(p, @)]
                  /\ UNCHANGED applied
             ELSE /\ applied' = FileEffect(p, applied)
                  /\ UNCHANGED tx
          /\ pc' = [pc EXCEPT ![p] = "update"]
          /\ UNCHANGED <<err, hist>>

\* conn.ExecContext(ctx, `UPDATE _migrate_ SET version = $1;`, version)
RunFileUpdate(p) ==
    /\ pc[p] = "update"
    /\ UNCHANGED <<envVars, hasTable, applied, op, arg, targetVersion, currentVersion, idx,
                   ctxDone, nBegin, nCommit, executed, gvPath, pre>>
    /\ \/ \* the statement fails: tx.Rollback(), and the error is returned
          /\ tx' = [tx EXCEPT ![p] = RolledBack(p)]
          /\ UNCHANGED rows
          /\ Finish(p, "Update", rows, applied)
       \/ /\ CtxLive(p)
          /\ IF InTx(p)
             THEN /\ tx' = [tx EXCEPT ![p].rows = UpdateEffect(@, StepVersion(p))]
                  /\ UNCHANGED rows
             ELSE /\ rows' = UpdateEffect(rows, StepVersion(p))
                  /\ UNCHANGED tx
          /\ pc' = [pc EXCEPT ![p] = "commit"]
          /\ UNCHANGED <<err, hist>>

\* tx.Commit(), and the loop's step to the next idx or its end.
RunFileCommit(p) ==
    /\ pc[p] = "commit"
    /\ tx' = [tx EXCEPT ![p] = NoTx]
    /\ UNCHANGED <<envVars, hasTable, op, arg, targetVersion, currentVersion, ctxDone,
                   nBegin, executed, gvPath, pre>>
    /\ \/ \* Commit fails (the context is cancelled, the connection fails):
          \* what the transaction holds is dropped
          /\ UNCHANGED <<rows, applied, nCommit, idx>>
          /\ Finish(p, "Commit", rows, applied)
       \/ /\ CtxLive(p)
          /\ rows' = IF InTx(p) THEN tx[p].rows ELSE rows
          /\ applied' = IF InTx(p) THEN tx[p].applied ELSE applied
          /\ nCommit' = [nCommit EXCEPT ![p] = @ + 1]
          /\ idx' = [idx EXCEPT ![p] = NextIdx(p)]
          /\ IF LoopContinues(currentVersion[p], targetVersion[p], NextIdx(p))
             THEN /\ pc' = [pc EXCEPT ![p] = "runFile"]
                  /\ UNCHANGED <<err, hist>>
             ELSE Finish(p, "nil", rows', applied')

\* ------------------------------------------------------- specification
\* The steps of a call that is running.
Run(p) ==
    \/ Cancel(p)
    \/ GetVersionQuery(p)
    \/ GetVersionBootstrap(p)
    \/ Load(p)
    \/ RunFileBegin(p)
    \/ RunFileExec(p)
    \/ RunFileUpdate(p)
    \/ RunFileCommit(p)

\* One runner, called any number of times with any targets: the use the
\* program is written for.
Next == CallMigrate(1) \/ CallGetVersion(1) \/ Run(1)

Spec == Init /\ [][Next]_vars

\* One runner under a scripted caller, whose calls are logged in hist.
GV == [op |-> "getVersion", target |-> 0]
Mig(t) == [op |-> "migrate", target |-> t]

\* getVersion twice, as TestMigrate starts; and to N, to 0, back to N.
TwoReads == <<GV, GV>>
RoundTrip(n) == <<Mig(n), Mig(0), Mig(n)>>

InitScripted ==
    /\ dir \in Dirs
    /\ connKind \in {"DB", "Conn"}
    /\ InitDb
    /\ InitRun
    /\ \/ script = TwoReads
       \/ /\ script \in {RoundTrip(n) : n \in 0..MaxNumber}
          /\ rows \subseteq {0}

NextScripted == CallScripted(1) \/ Run(1)

SpecScripted == InitScripted /\ [][NextScripted]_vars

\* Two runners against the same database, each called once while the other
\* may be running: two processes started as main starts one, each with its
\* own pool (sql.Open) and the whole set of migrations, which take no lock
\* and know nothing of each other.  The contexts are not cancelled.
ConcurrentTargets == (0 - 1)..MaxNumber

CallOnce(p) ==
    \E t \in ConcurrentTargets :
        /\ pc[p] = "idle"
        /\ script = <<>>
        /\ Enter(p, "migrate", t)

InitConcurrent ==
    /\ dir = MigFiles
    /\ connKind = "DB"
    /\ InitDb
    /\ InitRun
    /\ script = <<>>

NextConcurrent ==
    \E p \in Runners :
        \/ CallOnce(p)
        \/ GetVersionQuery(p)
        \/ GetVersionBootstrap(p)
        \/ Load(p)
        \/ RunFileBegin(p)
        \/ RunFileExec(p)
        \/ RunFileUpdate(p)
        \/ RunFileCommit(p)

SpecConcurrent == InitConcurrent /\ [][NextConcurrent]_vars

\* =============================================================== claims
\* What the claims speak of, stated on the files themselves and on the
\* durable database, apart from the operators that model the code.

\* A migration file: three dot separated segments, the last one "sql".
IsMigration(f) == Len(f.segs) = 2 /\ f.segs[2] = "sql"
Numeric(f) == f.num.kind # "nan"
\* The number a file carries, as the int the program holds.
NumberOf(f) == IF f.num.kind = "top" THEN 0 - f.num.k ELSE f.num.k
HasMigration(d, i, way) ==
    \E f \in d : IsMigration(f) /\ Numeric(f) /\ NumberOf(f) = i /\ f.segs[1] = way
\* maxNumber: the largest number of a migration file, 0 if there is none.
MaxNumberOf(d) ==
    LET ns == {0} \cup {NumberOf(f) : f \in {g \in d : IsMigration(g) /\ Numeric(g)}}
    IN  CHOOSE m \in ns : \A n \in ns : n <= m
\* The directory fails validation: a migration file with a prefix that is no
\* number or with a direction token other than up and down, or an interior
\* number without its up-file or without its down-file.
FailsValidation(d) ==
    \/ \E f \in d : IsMigration(f) /\ ~Numeric(f)
    \/ \E f \in d : IsMigration(f) /\ Numeric(f) /\ f.segs[1] \notin {"up", "down"}
    \/ \E i \in 1..(MaxNumberOf(d) - 1) :
          ~HasMigration(d, i, "up") \/ ~HasMigration(d, i, "down")

\* The errors of the validation: of a file name, of a missing migration.
ValidationErrs == {"InvalidFilename", "BadFilename", "MissingUp", "MissingDown"}
\* The errors of reading the version or the directory.
ReadErrs == {"ReadNonPq", "ReadPqOther", "Bootstrap", "Discovery"}
\* The errors of a step, returned by runFile.
StepErrs == {"ReadFile", "BeginTx", "Execution", "Update", "Commit"}

\* The durable database (tracking table h, r and applied migrations a) is
\* consistent: one row, and the applied migrations are exactly 1..version.
ConsistentDb(h, r, a) ==
    IF h THEN \E v \in r : r = {v} /\ a = 1..v ELSE r = {} /\ a = {}

\* The version getVersion reports for a database: the row, 0 if there is no table.
Reported(h, r) == IF h THEN r ELSE {0}

Abs(n) == IF n < 0 THEN 0 - n ELSE n

Migrating(p) == op[p] = "migrate" /\ pc[p] \notin {"idle"}

\* The plain use: a directory of well formed migration files only, and a
\* target that is the sentinel or a number from 0 to the largest.
PlainCall(p) == dir \subseteq MigFiles /\ arg[p] \in (0 - 1)..MaxNumberOf(dir)
Returned(p) == op[p] = "migrate" /\ pc[p] = "done"

\* C1: per-step atomicity.  Whenever no step is under way (before a step,
\* after a step that committed, after a step that failed), the durable
\* database has exactly the migrations 1..version applied: a step's file and
\* its version change became durable together or not at all.  Stated for
\* the plain use.
C1_StepAtomicity ==
    (/\ \A p \in Runners : pc[p] \in {"idle", "done", "getVersion", "bootstrap", "load", "runFile"}
     /\ dir \subseteq MigFiles)
        => ConsistentDb(hasTable, rows, applied)

\* C2: when MigrateDatabase returns success, the persisted version is the
\* target (the largest number for the sentinel -1), and every step from
\* the version read to the target was executed and committed.
C2_SuccessReachesTarget ==
    \A p \in Runners :
        (Returned(p) /\ err[p] = "nil") =>
            /\ hasTable
            /\ rows = {IF arg[p] = 0 - 1 THEN MaxNumberOf(dir) ELSE arg[p]}
            /\ nCommit[p] = Abs(targetVersion[p] - currentVersion[p])
            /\ Len(executed[p]) = nCommit[p]
            /\ nBegin[p] = nCommit[p]
            /\ (ConsistentDb(pre[p].hasTable, pre[p].rows, pre[p].applied)
                   => ConsistentDb(hasTable, rows, applied))

\* C2's case: a run that succeeded from a version left by an earlier run,
\* two steps away from its target.
C2_Witness ==
    /\ Returned(1) /\ err[1] = "nil"
    /\ pre[1].hasTable /\ pre[1].rows # {0}
    /\ nCommit[1] = 2
    /\ rows = {targetVersion[1]}

\* C3: over a directory that fails validation, MigrateDatabase opens no
\* transaction, executes no file and leaves the version as it is, whatever
\* the version and the target, and what it returns is an error.
C3_InvalidDirNothingRuns ==
    \A p \in Runners :
        (Migrating(p) /\ FailsValidation(dir)) =>
            /\ nBegin[p] = 0
            /\ ~tx[p].open
            /\ executed[p] = <<>>
            /\ applied = pre[p].applied
            /\ Reported(hasTable, rows) = Reported(pre[p].hasTable, pre[p].rows)
            /\ pc[p] \notin {"runFile", "exec", "update", "commit"}
            /\ pc[p] = "done" => err[p] \in ValidationErrs \cup ReadErrs

\* C3's case: a directory without the down-file of an interior number, a
\* target away from the current version, and the call has returned.
C3_Witness ==
    /\ Returned(1) /\ err[1] = "MissingDown"
    /\ FailsValidation(dir)
    /\ pre[1].hasTable /\ arg[1] \notin pre[1].rows \cup {0 - 1}

\* C4: fail fast with exact progress.  When a step of a run fails, no later
\* step was started, no file was executed twice, and the persisted version
\* is the one written by the last step that committed.  Stated for the
\* plain use.
C4_FailFastExactProgress ==
    \A p \in Runners :
        (Returned(p) /\ err[p] \in StepErrs /\ PlainCall(p)) =>
            /\ Len(executed[p]) <= nCommit[p] + 1
            /\ nBegin[p] <= nCommit[p] + 1
            /\ \A i, j \in 1..Len(executed[p]) : executed[p][i] = executed[p][j] => i = j
            /\ rows = {IF Up(p) THEN currentVersion[p] + nCommit[p]
                       ELSE currentVersion[p] - nCommit[p]}

\* C5: at rest.  A call whose target is the persisted version, over a valid
\* directory, opens no transaction, executes no file and leaves the database
\* as it is; once the version and the directory are read it returns success.
C5_NoOpAtRest ==
    \A p \in Runners :
        (/\ Migrating(p)
         /\ ~FailsValidation(dir)
         /\ pre[p].hasTable
         /\ pre[p].rows = {IF arg[p] = 0 - 1 THEN MaxNumberOf(dir) ELSE arg[p]}) =>
            /\ nBegin[p] = 0
            /\ nCommit[p] = 0
            /\ ~tx[p].open
            /\ executed[p] = <<>>
            /\ <<hasTable, rows, applied>> = <<pre[p].hasTable, pre[p].rows, pre[p].applied>>
            /\ pc[p] = "done" => err[p] \in {"nil", "ReadNonPq", "ReadPqOther", "Discovery"}

\* C5's case: a second call with the target the first one reached.
C5_Witness ==
    /\ Returned(1) /\ err[1] = "nil"
    /\ pre[1].rows = {2} /\ arg[1] = 2
    /\ gvPath[1] = "existing"

\* C6: bootstrap.  getVersion on a database without the tracking table
\* creates it with the single row 0 and returns 0; a second getVersion
\* returns the same value from the table that now exists, and the table
\* still holds that one row.
C6_BootstrapThenRead ==
    script = TwoReads =>
        /\ \A i \in 1..Len(hist) :
              (hist[i].err = "nil" /\ ~hist[i].had) =>
                  /\ hist[i].value = 0
                  /\ hist[i].path = "bootstrap"
                  /\ hist[i].rows = {0}
        /\ (Len(hist) = 2 /\ hist[2].err = "nil") =>
              /\ hist[2].value = hist[1].value
              /\ hist[2].path = "existing"
              /\ hist[2].rows = hist[1].rows
              /\ Cardinality(hist[2].rows) = 1
              /\ hist[2].applied = hist[1].applied

\* C6's case: the first read bootstrapped, the second one has returned.
C6_Witness ==
    /\ script = TwoReads
    /\ Len(hist) = 2
    /\ hist[1].path = "bootstrap" /\ hist[1].err = "nil"
    /\ hist[2].path = "existing" /\ hist[2].err = "nil" /\ hist[2].value = 0

\* The errors that are failures of the database or of the directory listing
\* (a call that fails, a cancelled context), not of the migration set.
FaultErrs == {"ReadNonPq", "ReadPqOther", "Bootstrap", "Discovery",
              "BeginTx", "Execution", "Update", "Commit"}

\* The runs to n, to 0 and back to n, from version 0: none returns an error
\* (unless the database or the listing fails), and after the third the
\* database is as after the first, at version n with 1..n applied.
RoundTripHolds(n) ==
    /\ \A i \in 1..Len(hist) : hist[i].err \in {"nil"} \cup FaultErrs
    /\ (Len(hist) = 3 /\ hist[3].err = "nil") =>
          /\ hist[3].rows = {n}
          /\ hist[3].applied = 1..n
          /\ hist[3].rows = hist[1].rows
          /\ hist[3].applied = hist[1].applied

\* C7 as claimed: the round trip holds for every directory that passes
\* validation and every n from 0 to the largest number.  Stated for the
\* directories that have the up-file of every number.
C7_RoundTripAnyValidSet ==
    \A n \in 0..MaxNumber :
        (/\ script = RoundTrip(n)
         /\ ~FailsValidation(dir)
         /\ n <= MaxNumberOf(dir)
         /\ \A i \in 1..MaxNumberOf(dir) : HasMigration(dir, i, "up"))
            => RoundTripHolds(n)

\* C7 as amended: the round trip holds for every directory that passes
\* validation and has the up-file and the down-file of every number in 1..n.
C7_RoundTripCompleteSet ==
    \A n \in 0..MaxNumber :
        (/\ script = RoundTrip(n)
         /\ ~FailsValidation(dir)
         /\ n <= MaxNumberOf(dir)
         /\ \A i \in 1..n : HasMigration(dir, i, "up") /\ HasMigration(dir, i, "down"))
            => RoundTripHolds(n)

\* C7's case: the three runs of a round trip to the largest number returned
\* success.
C7_Witness ==
    /\ script = RoundTrip(MaxNumber)
    /\ Len(hist) = 3
    /\ \A i \in 1..3 : hist[i].err = "nil"
    /\ hist[1].steps = MaxNumber /\ hist[2].steps = MaxNumber /\ hist[3].steps = MaxNumber
    /\ rows = {MaxNumber}

\* C8: the version stays in range.  From a version in 0..maxNumber, a call
\* that returns success, whatever its target, leaves a version in
\* 0..maxNumber.
C8_VersionInRange ==
    \A p \in Runners :
        (/\ Returned(p) /\ err[p] = "nil"
         /\ pre[p].hasTable /\ pre[p].rows \subseteq 0..MaxNumberOf(dir)) =>
            rows \subseteq 0..MaxNumberOf(dir)

\* C9 as claimed: when MigrateDatabase returns a validation error, the
\* database is as it was before the call.
C9_ValidationBeforeAnySql ==
    \A p \in Runners :
        (Returned(p) /\ err[p] \in ValidationErrs) =>
            <<hasTable, rows, applied>> = <<pre[p].hasTable, pre[p].rows, pre[p].applied>>

\* C9 as amended: when MigrateDatabase returns a validation error, no
\* migration file was executed and no transaction was opened; the database is
\* as before the call, but for the tracking table with version 0 that
\* getVersion creates on a database that had none.
C9_ValidationBeforeMigrationSql ==
    \A p \in Runners :
        (Returned(p) /\ err[p] \in ValidationErrs) =>
            /\ executed[p] = <<>>
            /\ nBegin[p] = 0
            /\ applied = pre[p].applied
            /\ hasTable
            /\ IF pre[p].hasTable
               THEN rows = pre[p].rows /\ gvPath[p] = "existing"
               ELSE rows = {0} /\ gvPath[p] = "bootstrap"

\* C9's case: a validation error returned on a database that had no
\* tracking table.
C9_Witness ==
    /\ Returned(1) /\ err[1] \in ValidationErrs
    /\ ~pre[1].hasTable /\ hasTable

\* C10 as claimed: a cancellation never makes a step that is under way (its
\* transaction begun) fail.  Stated for the plain use.
C10_CancelOnlyAtBoundaries ==
    \A p \in Runners :
        (Returned(p) /\ ctxDone[p] /\ PlainCall(p)) =>
            err[p] \notin {"Execution", "Update", "Commit"}

\* C10 as amended: once the context is cancelled, the next thing a run that
\* is at a step does is to return an error, also when the step is under way;
\* it begins and commits no transaction and writes nothing any more.
C10_CancelInterruptsStep ==
    [][\A p \in Runners :
          (/\ ctxDone[p]
           /\ pc[p] \in {"runFile", "exec", "update", "commit"}
           /\ pc'[p] # pc[p]) =>
              /\ pc'[p] = "done"
              /\ err'[p] # "nil"
              /\ nBegin'[p] = nBegin[p]
              /\ nCommit'[p] = nCommit[p]
              /\ <<hasTable', rows', applied'>> = <<hasTable, rows, applied>>]_vars

\* C10's case: the context was cancelled while the second step of a run was
\* under way, and the step failed at its UPDATE.
C10_Witness ==
    /\ Returned(1) /\ ctxDone[1]
    /\ err[1] = "Update"
    /\ nCommit[1] = 1 /\ nBegin[1] = 2

\* The steps of a run from version c to target t: up(c+1), ..., up(t) going
\* up, down(c), ..., down(t+1) going down.
StepsTo(c, t) ==
    IF t > c THEN [i \in 1..(t - c) |-> <<"up", c + i>>]
    ELSE [i \in 1..(c - t) |-> <<"down", c - i + 1>>]
IsPrefix(s, t) == Len(s) <= Len(t) /\ \A i \in 1..Len(s) : s[i] = t[i]
\* The call has read the version and loaded the directory without error.
Loaded(p) ==
    /\ Migrating(p)
    /\ pc[p] \in {"runFile", "exec", "update", "commit", "done"}
    /\ pc[p] = "done" => err[p] \in {"nil"} \cup StepErrs

\* C11: sentinel equivalence.  A call with target -1 and a call with target
\* maxNumber, from the same version over the same directory, run to the same
\* target: either executes the steps from the version read to maxNumber, in
\* that order and no others, and one that returns success leaves version
\* maxNumber with all of these steps executed.
C11_SentinelIsMaxNumber ==
    \A p \in Runners :
        (Loaded(p) /\ arg[p] \in {0 - 1, MaxNumberOf(dir)}) =>
            /\ targetVersion[p] = MaxNumberOf(dir)
            /\ IsPrefix(executed[p], StepsTo(currentVersion[p], MaxNumberOf(dir)))
            /\ (pc[p] = "done" /\ err[p] = "nil") =>
                  /\ executed[p] = StepsTo(currentVersion[p], MaxNumberOf(dir))
                  /\ rows = {MaxNumberOf(dir)}

\* C11's case: a call with target -1 from version 0 has returned success
\* after the steps up(1), ..., up(maxNumber).
C11_Witness ==
    /\ Returned(1) /\ err[1] = "nil"
    /\ arg[1] = 0 - 1
    /\ currentVersion[1] = 0
    /\ MaxNumberOf(dir) = MaxNumber
    /\ executed[1] = StepsTo(0, MaxNumber)
    /\ rows = {MaxNumber}

\* C12: completeness after validation.  When the loader has accepted the
\* directory, it has the up-file and the down-file of every number in
\* 1..maxNumber-1 and the up-file of maxNumber, and so a run from version 0
\* to the latest version (target -1) does not fail for a file ReadFile does
\* not find.  Stated for the directories of well formed migration files.
C12_ValidatedSetIsComplete ==
    \A p \in Runners :
        (/\ Loaded(p) /\ pc[p] = "done"
         /\ dir \subseteq MigFiles
         /\ arg[p] = 0 - 1 /\ currentVersion[p] = 0) =>
            /\ \A i \in 1..(MaxNumberOf(dir) - 1) :
                  HasMigration(dir, i, "up") /\ HasMigration(dir, i, "down")
            /\ MaxNumberOf(dir) >= 1 => HasMigration(dir, MaxNumberOf(dir), "up")
            /\ err[p] # "ReadFile"

\* Both runners' calls have returned success.
BothSucceeded == \A p \in Runners : Returned(p) /\ err[p] = "nil"
\* Neither call was made while the other was running.
OneAfterTheOther == \A p \in Runners : pre[p].alone
\* A step both runs executed.
ExecutedTwice ==
    \E i \in 1..Len(executed[1]) : \E j \in 1..Len(executed[2]) :
        executed[1][i] = executed[2][j]

\* C13: no guard against concurrent runners.  Two calls made one after the
\* other that both return success leave the applied migrations equal to
\* 1..version and execute no step twice; nothing keeps a call from being
\* made while the other is running, and then both can return success with
\* the version counter corrupted (C13_Witness).
C13_OnlyOverlapCorrupts ==
    (BothSucceeded /\ OneAfterTheOther) =>
        /\ ConsistentDb(hasTable, rows, applied)
        /\ ~ExecutedTwice

\* C13's case: two calls were running at the same time, both returned
\* success, and the persisted version is not the one of the applied
\* migrations.
C13_Witness ==
    /\ BothSucceeded
    /\ ~OneAfterTheOther
    /\ ~ConsistentDb(hasTable, rows, applied)

\* The step a run executed last.
LastStep(p) == executed[p][Len(executed[p])]

\* C14: step ordering.  The steps a run has executed are, in order, the
\* first ones of up(c+1), ..., up(t) going up from c to t, of down(c), ...,
\* down(t+1) going down, never steps of both directions; and every change of
\* the persisted version is made by a run at a step it has executed, by +1
\* to i after up(i) or by -1 to i-1 after down(i).
C14_StepOrdering ==
    [][/\ \A p \in Runners :
             (Loaded(p))' =>
                 IsPrefix(executed'[p], StepsTo(currentVersion'[p], targetVersion'[p]))
       /\ (hasTable /\ rows' # rows) =>
             \E p \in Runners : \E v \in rows :
                 /\ pc[p] \in {"update", "commit"}
                 /\ executed[p] # <<>>
                 /\ rows = {v}
                 /\ \/ rows' = {v + 1} /\ LastStep(p) = <<"up", v + 1>>
                    \/ rows' = {v - 1} /\ LastStep(p) = <<"down", v>>]_vars

\* C14's case: a run down from the largest version to 0 has returned after
\* its steps down(maxNumber), ..., down(1).
C14_Witness ==
    /\ Returned(1) /\ err[1] = "nil"
    /\ currentVersion[1] = MaxNumber /\ targetVersion[1] = 0
    /\ executed[1] = StepsTo(MaxNumber, 0)
    /\ Len(executed[1]) = MaxNumber
    /\ executed[1][1] = <<"down", MaxNumber>>
    /\ rows = {0}

\* C15: one transaction at a time.  A runner has a transaction open only
\* while a step is under way, from its BeginTx to its Commit or Rollback:
\* none is open when runFile has returned, with success or with an error,
\* nor when the next step starts; so the transactions begun are never more
\* than one ahead of those committed or rolled back.
C15_OneTransactionAtATime ==
    \A p \in Runners :
        /\ tx[p].open <=> pc[p] \in {"exec", "update", "commit"}
        /\ nBegin[p] = nCommit[p] +
              (IF tx[p].open \/ (pc[p] = "done" /\ err[p] \in {"Execution", "Update", "Commit"})
               THEN 1 ELSE 0)

\* C15's case: the second step of a run failed at its UPDATE, and runFile
\* has returned with the transaction rolled back.
C15_Witness ==
    /\ Returned(1) /\ err[1] = "Update"
    /\ nBegin[1] = 2 /\ nCommit[1] = 1
    /\ ~tx[1].open

\* C16: getVersion bootstraps only on undefined_table.  A call goes to the
\* bootstrap only on a database that has no tracking table; and a call that
\* returns another read failure (no *pq.Error, or a *pq.Error of another
\* code) has created no table and inserted no row, has not read the
\* directory (the sentinel is not resolved), has begun no transaction and
\* executed no file: the database is as before the call.
C16_BootstrapOnlyOnUndefinedTable ==
    \A p \in Runners :
        /\ (pc[p] = "bootstrap" \/ gvPath[p] = "bootstrap"
               \/ (pc[p] = "done" /\ err[p] = "Bootstrap")) => ~pre[p].hasTable
        /\ (pc[p] = "done" /\ err[p] \in {"ReadNonPq", "ReadPqOther"}) =>
              /\ <<hasTable, rows, applied>> = <<pre[p].hasTable, pre[p].rows, pre[p].applied>>
              /\ gvPath[p] = "none"
              /\ targetVersion[p] = arg[p]
              /\ nBegin[p] = 0
              /\ ~tx[p].open
              /\ executed[p] = <<>>

\* C16's case: on a database without the tracking table the SELECT failed
\* with a *pq.Error of another code; MigrateDatabase has returned it, and
\* there is still no table.
C16_Witness ==
    /\ Returned(1) /\ err[1] = "ReadPqOther"
    /\ ~pre[1].hasTable /\ ~hasTable
    /\ arg[1] = MaxNumber /\ MaxNumberOf(dir) = MaxNumber

\* The directory without its incidental files (those that do not have
\* three dot separated segments, the last one "sql").
WithoutIncidental(d) == {f \in d : IsMigration(f)}

\* C17: incidental files are inert.  The largest number, the up and down
\* index and the outcome of the validation are those of the directory
\* without its incidental files; and a call that has loaded the directory
\* runs to the target, executes the steps and reports the missing file that
\* the directory without them gives.
C17_IncidentalFilesInert ==
    LET core == WithoutIncidental(dir) IN
    /\ maxMigration(dir) = maxMigration(core)
    /\ upFiles(dir) = upFiles(core)
    /\ downFiles(dir) = downFiles(core)
    /\ LoadErrors(dir) = LoadErrors(core)
    /\ \A p \in Runners :
          /\ (Migrating(p) /\ pc[p] = "done" /\ err[p] \in ValidationErrs)
                => FailsValidation(core)
          /\ Loaded(p) =>
                /\ ~FailsValidation(core)
                /\ targetVersion[p] = (IF arg[p] = 0 - 1 THEN MaxNumberOf(core) ELSE arg[p])
                /\ IsPrefix(executed[p], StepsTo(currentVersion[p], targetVersion[p]))
                /\ (pc[p] = "done" /\ err[p] = "ReadFile") =>
                      ~HasMigration(core, idx[p], IF Up(p) THEN "up" ELSE "down")
                /\ (pc[p] = "done" /\ err[p] = "nil") =>
                      executed[p] = StepsTo(currentVersion[p], targetVersion[p])

\* C17's case: the directory holds the migrations 1..maxNumber and a file
\* with a higher number and four segments; a call with target -1
\* from version 0 has returned success at maxNumber.
C17_Witness ==
    /\ Backup \in dir /\ MigFiles \subseteq dir
    /\ Returned(1) /\ err[1] = "nil"
    /\ arg[1] = 0 - 1 /\ currentVersion[1] = 0
    /\ Len(executed[1]) = MaxNumber
    /\ rows = {MaxNumber}

\* C18: out-of-range targets.  Over a directory that passes validation and
\* from a version in 0..maxNumber, a call with a target above maxNumber or
\* below -1 keeps the persisted version in 0..maxNumber in every state
\* during and after the call, and what it returns is an error.  Stated for
\* a *sql.Conn, on which a step takes effect as a whole.
C18_OutOfRangeTargetFails ==
    \A p \in Runners :
        (/\ Migrating(p)
         /\ connKind = "Conn"
         /\ ~FailsValidation(dir)
         /\ pre[p].hasTable /\ pre[p].rows \subseteq 0..MaxNumberOf(dir)
         /\ (arg[p] > MaxNumberOf(dir) \/ arg[p] < 0 - 1)) =>
            /\ rows \subseteq 0..MaxNumberOf(dir)
            /\ pc[p] = "done" => err[p] # "nil"
====
